---- MODULE Spec2Model ----
(***************************************************************************)
(* A model of server.js: one POST /chat request travelling through the     *)
(* express.json() body parser, the error-handling middleware and the       *)
(* /chat handler, which calls three remote services in turn (the embedding *)
(* API, the Pinecone index, the Gemini chat model).  The remote services   *)
(* are the environment: each answer is chosen from a small set.  Requests  *)
(* share no mutable state, so one request is modelled.                     *)
(***************************************************************************)
EXTENDS Integers, Sequences, FiniteSets, TLC

VARIABLES
    pc,              \* where the request is: Received, ParseError, Routing,
                     \* Embedding, Searching, Generating, Done
    req,             \* the HTTP request as sent by the client
    err,             \* the error express.json() handed to next(err)
    body,            \* req.body as the /chat handler sees it
    log,             \* the events of the request, in order
    embedReq,        \* JSON body of the fetch to :embedContent
    queryVector,     \* the vector returned by generateEmbedding
    searchResponse,  \* the answer of index.query
    contexts,        \* the joined context block
    prompt,          \* the prompt given to generateContent
    sent,            \* the HTTP responses written for the request
    remote,          \* the answers the remote services gave, in order
    indexDim         \* dimension of the index named by PINECONE_INDEX

vars == <<pc, req, err, body, log, embedReq, queryVector, searchResponse,
          contexts, prompt, sent, remote, indexDim>>

----------------------------------------------------------------------------
(* Bounds and program constants *)

MaxMatches == 2

TopK == 5

OutputDimensionality == 3072

DocumentedIndexDim == 768

----------------------------------------------------------------------------
(* JavaScript values: undefined, null, strings and numbers *)

Undefined == [t |-> "undefined", s |-> "", n |-> 0]

Null == [t |-> "null", s |-> "", n |-> 0]

Str(x) == [t |-> "string", s |-> x, n |-> 0]

Num(k) == [t |-> "number", s |-> "", n |-> k]

\* ToBoolean, as used by !x and x || y
Truthy(v) ==
    \/ v.t = "string" /\ v.s # ""
    \/ v.t = "number" /\ v.n # 0

\* ToString, as used by a template literal `${v}`
ToStr(v) ==
    CASE v.t = "undefined" -> "undefined"
      [] v.t = "null"      -> "null"
      [] v.t = "string"    -> v.s
      [] v.t = "number"    -> ToString(v.n)

\* x || y
Or(x, y) == IF Truthy(x) THEN x ELSE y

\* Array.prototype.join: undefined and null elements become ""
RECURSIVE Join(_, _)
Join(arr, sep) ==
    IF Len(arr) = 0 THEN ""
    ELSE LET el(v) == IF v.t \in {"undefined", "null"} THEN "" ELSE ToStr(v)
         IN  IF Len(arr) = 1 THEN el(arr[1])
             ELSE el(arr[1]) \o sep \o Join(Tail(arr), sep)

----------------------------------------------------------------------------
(* The environment: requests and the answers of the remote services *)

Question == "What is hypertension?"

Messages == {Undefined, Null, Str(""), Num(0), Str(Question)}

Requests ==
    [json : {"valid"}, message : Messages]
      \cup [json : {"malformed", "too_large"}, message : {Undefined}]

\* The index is whatever PINECONE_INDEX names: the 768-dimension index the
\* comment above generateEmbedding documents, or one of the size requested.
IndexDims == {DocumentedIndexDim, OutputDimensionality}

NoError == [code |-> 0, message |-> "", status |-> ""]

RateLimit ==
    [code |-> 429, message |-> "Resource has been exhausted (e.g. check quota).",
     status |-> "RESOURCE_EXHAUSTED"]

BadKey ==
    [code |-> 400, message |-> "API key not valid.", status |-> "INVALID_ARGUMENT"]

\* The parsed JSON answers of the embedding API.  A vector is its length,
\* and the API honours the output dimensionality it is asked for.
EmbedData(dim) ==
    { [hasError |-> FALSE, error |-> NoError, hasEmbedding |-> TRUE,
       hasValues |-> TRUE, values |-> dim],
      [hasError |-> FALSE, error |-> NoError, hasEmbedding |-> TRUE,
       hasValues |-> FALSE, values |-> 0],
      [hasError |-> TRUE, error |-> RateLimit, hasEmbedding |-> FALSE,
       hasValues |-> FALSE, values |-> 0],
      [hasError |-> TRUE, error |-> BadKey, hasEmbedding |-> FALSE,
       hasValues |-> FALSE, values |-> 0] }

\* fetch() rejecting, or response.json() throwing
EmbedThrows == {"fetch failed", "Unexpected end of JSON input"}

NoData ==
    [hasError |-> FALSE, error |-> NoError, hasEmbedding |-> FALSE,
     hasValues |-> FALSE, values |-> 0]

\* An answer of a remote service: it throws, or gives data, or gives text
Answer(op, thrown, data, text) ==
    [op |-> op, thrown |-> thrown, data |-> data, text |-> text]

Texts == {Undefined, Null, Str(""), Str("T1"), Str("T2")}

Sources == {Undefined, Str("Harrison Ch. 271")}

Pages == {Undefined, Num(0), Num(10), Num(12)}

NoMetadata ==
    [hasMetadata |-> FALSE,
     metadata |-> [text |-> Undefined, source |-> Undefined, page |-> Undefined]]

Matches ==
    [hasMetadata : {TRUE}, metadata : [text : Texts, source : Sources, page : Pages]]
      \cup {NoMetadata}

Min(a, b) == IF a < b THEN a ELSE b

MatchLists(k) == UNION { [1..n -> Matches] : n \in 0..Min(k, MaxMatches) }

SearchThrows == {"PineconeConnectionError: Request failed to reach Pinecone"}

DimensionMismatch(got, want) ==
    "Vector dimension " \o ToString(got)
      \o " does not match the dimension of the index " \o ToString(want)

Fallback == "I cannot find that information in the provided medical records."

GeneratedTexts == {"Answer citing T1,T2", Fallback}

GenerateThrows == {"[GoogleGenerativeAI Error]: [503 Service Unavailable]"}

NoVector == [length |-> 0]

NoSearch == [matches |-> <<>>]

----------------------------------------------------------------------------
(* Pure parts of server.js *)

\* JSON.stringify of the values line 57 can be given
Stringify(data) ==
    IF data.hasError
    THEN "{\"code\":" \o ToString(data.error.code)
           \o ",\"message\":\"" \o data.error.message
           \o "\",\"status\":\"" \o data.error.status \o "\"}"
    ELSE IF data.hasEmbedding THEN "{\"embedding\":{}}" ELSE "{}"

\* a truthiness test of the whole answer instead of data.embedding.values
HasEmbeddingMut(data) == TRUE

HasEmbedding(data) == data.hasEmbedding /\ data.hasValues

PredictionError(data) == "Google API Prediction Error: " \o Stringify(data)

\* the test on err.status dropped for one on the error's name alone, misspelt
IsBadJsonMut(e) == e.name = "JSONError" /\ e.hasBody

IsBadJson(e) == e.name = "SyntaxError" /\ e.status = 400 /\ e.hasBody

\* message === undefined in place of !message
MessageMissingMut(message) == message.t = "undefined"

MessageMissing(message) == ~Truthy(message)

Separator == "\n\n---\n\n"

TextDefined(text) == text.t # "undefined"

\* .map(match => match.metadata.text)
MetadataTexts(matches) == [i \in 1..Len(matches) |-> matches[i].metadata.text]

\* a placeholder text when nothing was retrieved
ContextsMut(matches) ==
    LET joined == Join(SelectSeq(MetadataTexts(matches), TextDefined), Separator)
    IN  IF joined = "" THEN "No relevant context found." ELSE joined

Contexts(matches) ==
    Join(SelectSeq(MetadataTexts(matches), TextDefined), Separator)

Prompt(ctx, message) ==
    "Context from medical records:\n" \o ctx
      \o "\n\nUser Question: " \o ToStr(message)

Citation(m) ==
    ToStr(Or(m.metadata.source,
             Str("Medical Manual P." \o ToStr(Or(m.metadata.page, Str("?"))))))

Citations(matches) == [i \in 1..Len(matches) |-> Citation(matches[i])]

ChatAnswer(text, matches) ==
    [status |-> 200, body |-> [answer |-> text, citations |-> Citations(matches)]]

\* res.json without res.status(500)
ChatErrorMut(message) ==
    [status |-> 200,
     body |-> [error |-> "An error occurred while processing your request.",
               details |-> message]]

ChatError(message) ==
    [status |-> 500,
     body |-> [error |-> "An error occurred while processing your request.",
               details |-> message]]

BadRequest(message) == [status |-> 400, body |-> [error |-> message]]

----------------------------------------------------------------------------
(* The request's steps *)

NoErr == [name |-> "", status |-> 0, hasBody |-> FALSE]

NoBody == [defined |-> FALSE, message |-> Undefined]

NoEmbedReq == [text |-> Undefined, output_dimensionality |-> 0]

Init ==
    /\ pc = "Received"
    /\ req \in Requests
    /\ indexDim \in IndexDims
    /\ err = NoErr
    /\ body = NoBody
    /\ log = <<>>
    /\ embedReq = NoEmbedReq
    /\ queryVector = NoVector
    /\ searchResponse = NoSearch
    /\ contexts = ""
    /\ prompt = ""
    /\ sent = <<>>
    /\ remote = <<>>

\* res.status(..).json(..) ending the request, after the events given
Respond(response, events) ==
    /\ sent' = Append(sent, response)
    /\ log' = log \o events \o <<"respond">>
    /\ pc' = "Done"

\* the catch block of the /chat handler
Catch(message, events) == Respond(ChatError(message), events)

\* app.use(express.json()): parses the body, or hands an error to next(err).
\* Whether req.body is {} or undefined after a failed read depends on the
\* body-parser version, so both are possible.
JsonParser ==
    /\ pc = "Received"
    /\ IF req.json = "valid"
       THEN /\ body' = [defined |-> TRUE, message |-> req.message]
            /\ pc' = "Routing"
            /\ err' = err
       ELSE /\ err' = IF req.json = "malformed"
                      THEN [name |-> "SyntaxError", status |-> 400, hasBody |-> TRUE]
                      ELSE [name |-> "PayloadTooLargeError", status |-> 413,
                            hasBody |-> FALSE]
            /\ \E d \in BOOLEAN : body' = [defined |-> d, message |-> Undefined]
            /\ pc' = "ParseError"
    /\ UNCHANGED <<req, log, embedReq, queryVector, searchResponse, contexts,
                   prompt, sent, remote, indexDim>>

\* the error-handling middleware
ErrorMiddleware ==
    /\ pc = "ParseError"
    /\ IF IsBadJson(err)
       THEN Respond(BadRequest("Invalid JSON format. Please check your request body."),
                    <<>>)
       ELSE /\ pc' = "Routing"
            /\ UNCHANGED <<log, sent>>
    /\ UNCHANGED <<req, err, body, embedReq, queryVector, searchResponse,
                   contexts, prompt, remote, indexDim>>

\* the validation without its return: the 400 is written and the handler goes on
ChatHandlerMut ==
    /\ pc = "Routing"
    /\ IF ~body.defined
       THEN /\ Catch("Cannot destructure property 'message' of 'req.body' as it is undefined.",
                     <<"chat">>)
            /\ UNCHANGED embedReq
       ELSE /\ embedReq' = [text |-> body.message,
                            output_dimensionality |-> OutputDimensionality]
            /\ pc' = "Embedding"
            /\ IF MessageMissing(body.message)
               THEN /\ sent' = Append(sent, BadRequest("Message is required"))
                    /\ log' = log \o <<"chat", "respond", "embed">>
               ELSE /\ log' = log \o <<"chat", "embed">>
                    /\ UNCHANGED sent
    /\ UNCHANGED <<req, err, body, queryVector, searchResponse, contexts,
                   prompt, remote, indexDim>>

\* app.post('/chat'), up to the fetch inside generateEmbedding
ChatHandler ==
    /\ pc = "Routing"
    /\ IF ~body.defined
       THEN /\ Catch("Cannot destructure property 'message' of 'req.body' as it is undefined.",
                     <<"chat">>)
            /\ UNCHANGED embedReq
       ELSE IF MessageMissing(body.message)
       THEN /\ Respond(BadRequest("Message is required"), <<"chat">>)
            /\ UNCHANGED embedReq
       ELSE /\ embedReq' = [text |-> body.message,
                            output_dimensionality |-> OutputDimensionality]
            /\ log' = log \o <<"chat", "embed">>
            /\ pc' = "Embedding"
            /\ UNCHANGED sent
    /\ UNCHANGED <<req, err, body, queryVector, searchResponse, contexts,
                   prompt, remote, indexDim>>

\* the rest of generateEmbedding, then index.query is called
EmbedReturn ==
    /\ pc = "Embedding"
    /\ \/ \E message \in EmbedThrows :
            /\ remote' = Append(remote, Answer("embed", message, NoData, ""))
            /\ Catch(message, <<"embed:fail">>)
            /\ UNCHANGED queryVector
       \/ \E data \in EmbedData(embedReq.output_dimensionality) :
            /\ remote' = Append(remote, Answer("embed", "", data, ""))
            /\ IF HasEmbedding(data)
               THEN /\ queryVector' = [length |-> data.values]
                    /\ log' = log \o <<"embed:ok", "search">>
                    /\ pc' = "Searching"
                    /\ UNCHANGED sent
               ELSE /\ Catch(PredictionError(data), <<"embed:fail">>)
                    /\ UNCHANGED queryVector
    /\ UNCHANGED <<req, err, body, embedReq, searchResponse, contexts, prompt,
                   indexDim>>

\* index.query answers; the contexts and the prompt are built and
\* generateContent is called.  The index rejects a vector of another length.
SearchReturn ==
    /\ pc = "Searching"
    /\ \/ \E message \in SearchThrows :
            /\ remote' = Append(remote, Answer("search", message, NoData, ""))
            /\ Catch(message, <<"search:fail">>)
            /\ UNCHANGED <<searchResponse, contexts, prompt>>
       \/ /\ queryVector.length # indexDim
          /\ remote' = Append(remote,
                 Answer("search", DimensionMismatch(queryVector.length, indexDim),
                        NoData, ""))
          /\ Catch(DimensionMismatch(queryVector.length, indexDim), <<"search:fail">>)
          /\ UNCHANGED <<searchResponse, contexts, prompt>>
       \/ /\ queryVector.length = indexDim
          /\ \E matches \in MatchLists(TopK) :
               /\ remote' = Append(remote, Answer("search", "", NoData, ""))
               /\ searchResponse' = [matches |-> matches]
               /\ IF \E i \in 1..Len(matches) : ~matches[i].hasMetadata
                  THEN /\ Catch("Cannot read properties of undefined (reading 'text')",
                                <<"search:ok">>)
                       /\ UNCHANGED <<contexts, prompt>>
                  ELSE /\ contexts' = Contexts(matches)
                       /\ prompt' = Prompt(Contexts(matches), body.message)
                       /\ log' = log \o <<"search:ok", "generate">>
                       /\ pc' = "Generating"
                       /\ UNCHANGED sent
    /\ UNCHANGED <<req, err, body, embedReq, queryVector, indexDim>>

\* generateContent answers and the response is written
GenerateReturn ==
    /\ pc = "Generating"
    /\ \/ \E message \in GenerateThrows :
            /\ remote' = Append(remote, Answer("generate", message, NoData, ""))
            /\ Catch(message, <<"generate:fail">>)
       \/ \E text \in GeneratedTexts :
            /\ remote' = Append(remote, Answer("generate", "", NoData, text))
            /\ Respond(ChatAnswer(text, searchResponse.matches), <<"generate:ok">>)
    /\ UNCHANGED <<req, err, body, embedReq, queryVector, searchResponse,
                   contexts, prompt, indexDim>>

Next ==
    \/ JsonParser
    \/ ErrorMiddleware
    \/ ChatHandler
    \/ EmbedReturn
    \/ SearchReturn
    \/ GenerateReturn

Spec == Init /\ [][Next]_vars

----------------------------------------------------------------------------
(* Properties *)

Occurrences(e) == Cardinality({i \in DOMAIN log : log[i] = e})

Happened(e) == \E i \in DOMAIN log : log[i] = e

RemoteCalls == SelectSeq(log, LAMBDA e : e \in {"embed", "search", "generate"})

Answered == pc = "Done" /\ Len(sent) = 1

Ok200 == Answered /\ sent[1].status = 200

HasText(m) == m.metadata.text.t # "undefined"

NonEmptyText(m) == m.metadata.text.t = "string" /\ m.metadata.text.s # ""

Retained == SelectSeq(searchResponse.matches, HasText)

\* C1: in a 200 response to a non-empty message, the number of citations is
\* the number of matches whose metadata has a defined text field.
C1_CitationsCountRetained ==
    Ok200 => Len(sent[1].body.citations) = Len(Retained)

\* C2: a body without a message field, or with an empty message, is answered
\* 400 "Message is required" and no embedding, search or generation call is made.
C2_MissingMessage400 ==
    (req.json = "valid" /\ req.message \in {Undefined, Str("")})
      => /\ RemoteCalls = <<>>
         /\ remote = <<>>
         /\ Happened("chat") => Answered
         /\ Len(sent) > 0 =>
              sent = <<[status |-> 400, body |-> [error |-> "Message is required"]]>>

C2_Witness ==
    /\ req.json = "valid" /\ req.message = Str("")
    /\ Happened("chat")
    /\ Answered /\ sent[1].status = 400

\* C3: a malformed JSON body goes from Received to Failed: 400 with the fixed
\* error body, the /chat handler is not entered and no remote call is made.
C3_MalformedJson400 ==
    req.json = "malformed"
      => /\ ~Happened("chat")
         /\ RemoteCalls = <<>>
         /\ remote = <<>>
         /\ pc \in {"Received", "ParseError", "Done"}
         /\ pc = "Done" =>
              sent = <<[status |-> 400,
                        body |-> [error |->
                          "Invalid JSON format. Please check your request body."]]>>
         /\ pc # "Done" => sent = <<>>

C3_Witness ==
    req.json = "malformed" /\ pc = "Done" /\ Len(sent) = 1 /\ sent[1].status = 400

\* the message of the error a failed remote step throws
FailureMessage(a) ==
    IF a.thrown # "" THEN a.thrown
    ELSE "Google API Prediction Error: "
           \o (IF a.data.hasError
               THEN "{\"code\":" \o ToString(a.data.error.code)
                      \o ",\"message\":\"" \o a.data.error.message
                      \o "\",\"status\":\"" \o a.data.error.status \o "\"}"
               ELSE "{\"embedding\":{}}")

\* C4: when the embedding, search or generation step fails, the request ends
\* with 500 and a body of an error field and a details field carrying the
\* failure's message; the failed step is the last remote step invoked and no
\* answer or citations are returned.
C4_RemoteFailure500 ==
    \A op \in {"embed", "search", "generate"} :
      Happened(op \o ":fail")
        => /\ Answered
           /\ sent[1].status = 500
           /\ DOMAIN sent[1].body = {"error", "details"}
           /\ sent[1].body.error # ""
           /\ remote[Len(remote)].op = op
           /\ sent[1].body.details = FailureMessage(remote[Len(remote)])
           /\ RemoteCalls[Len(RemoteCalls)] = op
           /\ op = "embed" => ~Happened("search") /\ ~Happened("generate")
           /\ op = "search" => ~Happened("generate")

C4_Witness ==
    /\ Happened("embed:fail") /\ Answered
    /\ sent[1].status = 500
    /\ sent[1].body.details = "fetch failed"

IsRateLimit(a) == a.op = "embed" /\ a.thrown = "" /\ a.data.hasError /\ a.data.error.code = 429

EmbedAnswers == SelectSeq(remote, LAMBDA a : a.op = "embed")

\* C5 as stated: a rate-limit answer on attempt n < 3 is followed by attempt
\* n + 1 rather than by the failure of the request.
C5_RateLimitRetried ==
    \A n \in 1..Len(EmbedAnswers) :
      (n < 3 /\ IsRateLimit(EmbedAnswers[n]))
        => ~(pc = "Done" /\ Occurrences("embed") = n)

\* C5 amended: a rate-limit answer of the embedding API is not retried: the
\* embedding call is attempted exactly once, the error propagates, and the
\* request ends with 500 whose details carry the rate-limit payload; no search
\* or generation call follows.  No request attempts the embedding call twice.
C5_RateLimitNotRetried ==
    /\ Occurrences("embed") <= 1
    /\ \A n \in 1..Len(EmbedAnswers) :
         IsRateLimit(EmbedAnswers[n])
           => /\ Occurrences("embed") = 1
              /\ Happened("embed:fail")
              /\ ~Happened("search") /\ ~Happened("generate")
              /\ Answered
              /\ sent[1].status = 500
              /\ sent[1].body.details = FailureMessage(EmbedAnswers[n])

C5_Witness ==
    /\ Len(EmbedAnswers) = 1 /\ IsRateLimit(EmbedAnswers[1])
    /\ Answered /\ sent[1].status = 500

ZeroMatches == Happened("search:ok") /\ searchResponse.matches = <<>>

\* C6: when the vector store returns zero matches, context assembly does not
\* fail: the context block is empty, generation is invoked exactly once with
\* the empty context, and on its success the response is 200 with the
\* generated text as answer and an empty citations list.
C6_ZeroMatches ==
    ZeroMatches
      => /\ contexts = ""
         /\ Occurrences("generate") = 1
         /\ prompt = "Context from medical records:\n\n\nUser Question: "
                       \o req.message.s
         /\ pc \in {"Generating", "Done"}
         /\ pc = "Done" => Happened("generate:ok") \/ Happened("generate:fail")
         /\ Happened("generate:ok")
              => sent = <<[status |-> 200,
                           body |-> [answer |-> remote[Len(remote)].text,
                                     citations |-> <<>>]]>>

C6_Witness ==
    ZeroMatches /\ Ok200 /\ sent[1].body.answer = Fallback

\* the citation the spec derives from one match
ExpectedCitation(m) ==
    IF m.metadata.source.t # "undefined" THEN ToStr(m.metadata.source)
    ELSE "Medical Manual P."
           \o (IF m.metadata.page.t = "undefined" THEN "?"
               ELSE ToStr(m.metadata.page))

\* C7: in a 200 response citation i is derived from retained match i, in
\* search-result order: the source field when present, else "Medical Manual
\* P.<page>", with "?" only when the page field is absent; the answer is the
\* generator's text unmodified.
C7_CitationsFormat ==
    Ok200
      => /\ sent[1].body.citations
              = [i \in 1..Len(Retained) |-> ExpectedCitation(Retained[i])]
         /\ sent[1].body.answer = remote[Len(remote)].text

IsPrefix(a, b) == Len(a) <= Len(b) /\ \A i \in 1..Len(a) : a[i] = b[i]

\* C8: the remote calls happen in the order embedding, search, generation,
\* each at most once and only right after the previous one succeeded; exactly
\* one response is sent, after the last remote call, and a 200 only after all
\* three succeeded.
C8_LinearFlow ==
    /\ IsPrefix(RemoteCalls, <<"embed", "search", "generate">>)
    /\ \A i \in DOMAIN log :
         /\ log[i] = "embed" => i > 1 /\ log[i - 1] = "chat"
         /\ log[i] = "search" => i > 1 /\ log[i - 1] = "embed:ok"
         /\ log[i] = "generate" => i > 1 /\ log[i - 1] = "search:ok"
         /\ log[i] = "respond" => i = Len(log)
    /\ Occurrences("respond") = Len(sent)
    /\ Len(sent) <= 1
    /\ pc = "Done" <=> Len(sent) = 1
    /\ Len(sent) = 1 =>
         \A op \in {"embed", "search", "generate"} :
           Happened(op) => Happened(op \o ":ok") \/ Happened(op \o ":fail")
    /\ (Len(sent) = 1 /\ sent[1].status = 200)
         => Happened("embed:ok") /\ Happened("search:ok") /\ Happened("generate:ok")

C8_Witness ==
    /\ Ok200
    /\ log = <<"chat", "embed", "embed:ok", "search", "search:ok",
               "generate", "generate:ok", "respond">>

\* C9: the context block holds exactly the texts of the matches whose text
\* field is non-empty, in search-result order; a match whose text is missing,
\* empty or null adds nothing, not even a separator.
C9_ContextNonEmptyTexts ==
    Happened("generate")
      => contexts
           = Join([i \in 1..Len(SelectSeq(searchResponse.matches, NonEmptyText)) |->
                     SelectSeq(searchResponse.matches, NonEmptyText)[i].metadata.text],
                  Separator)

\* C10: the output dimensionality asked of the embedding API is 768, the
\* dimension of the vector store's index, so the vector given to the query has
\* the length the store expects and no search fails for a dimension mismatch.
C10_Dimension768 ==
    Happened("embed")
      => /\ embedReq.output_dimensionality = 768
         /\ (indexDim = 768 /\ Happened("search"))
              => /\ queryVector.length = indexDim
                 /\ ~(Happened("search:fail")
                      /\ remote[Len(remote)].thrown
                           = DimensionMismatch(queryVector.length, indexDim))

====
